---- MODULE Spec2Model ----
(***************************************************************************)
(* Model of the laptop service: the in-memory store                        *)
(* (service/laptop_store.go, InMemoryLaptopStore) and the CreateLaptop     *)
(* handler (LaptopServer).                                                 *)
(*                                                                         *)
(* Records are Go pointers: the model keeps a heap of objects (Laptop, CPU,*)
(* Memory) addressed by naturals, so that sharing between the caller's     *)
(* record, the stored record and the records handed out is visible.        *)
(***************************************************************************)
EXTENDS Integers, Sequences, FiniteSets, TLC

VARIABLES
    heap,      \* address -> object (pb.Laptop, pb.CPU, pb.Memory)
    data,      \* store.data: identifier -> address of the stored *pb.Laptop
    writer,    \* store.mutex: the process that holds or awaits the write lock
    readers,   \* store.mutex: the processes holding the read lock
    pc,        \* per process: where it stands in the operation it runs
    arg,       \* per process: the operation it runs and its arguments
    todo,      \* per process: keys the range loop of Search has yet to visit
    visited,   \* per process: keys for which Search invoked the callback
    ret,       \* per process: what its last operation returned
    reqs,      \* addresses of records built by callers (requests)
    results,   \* addresses of records handed to callers (Find, Search callback)
    saved,     \* history: identifier -> content of the record when it was saved
    accepted,  \* history: requests a Save stored, while their caller holds them
    qf, ql, qdone, qres, \* inputs and result of isQualified applied on its own
    bm, bdone, bres      \* input and result of toBit applied on its own

vars == <<heap, data, writer, readers, pc, arg, todo, visited, ret, reqs,
          results, saved, accepted, qf, ql, qdone, qres, bm, bdone, bres>>

storeVars == <<heap, data, writer, readers, pc, arg, todo, visited, ret, reqs,
               results, saved, accepted>>

qualVars == <<qf, ql, qdone, qres, bm, bdone, bres>>

-----------------------------------------------------------------------------
(* Values *)

\* nil pointer; addresses start at 1
Nil == 0

\* a pointer field that is nil, seen through the generated getters
NilMsg == [kind |-> "nil"]

Units == {"UNKNOWN", "BIT", "BYTE", "KILOBYTE", "MEGABYTE", "GIGABYTE", "TERABYTE"}

Mem(v, u) == [kind |-> "Memory", Value |-> v, Unit |-> u]

Cpu(n, g) == [kind |-> "CPU", NumberCores |-> n, MinGhz |-> g]

\* GHz are kept in tenths: 25 is 2.5 GHz
Filter(p, c, g, m) == [MaxPriceUsd |-> p, MinCpuCores |-> c, MinCpuGhz |-> g, MinRam |-> m]

\* the generated getters return the zero value on a nil receiver
GetNumberCores(cpu) == IF cpu.kind = "nil" THEN 0 ELSE cpu.NumberCores

GetMinGhz(cpu) == IF cpu.kind = "nil" THEN 0 ELSE cpu.MinGhz

GetValue(m) == IF m.kind = "nil" THEN 0 ELSE m.Value

GetUnit(m) == IF m.kind = "nil" THEN "UNKNOWN" ELSE m.Unit

-----------------------------------------------------------------------------
(* uint64 arithmetic: a value is four 16-bit limbs, least significant first *)

Base == 2 ^ 16

Pow2(n) == 2 ^ n

U64(v) == <<v % Base, (v \div Base) % Base, 0, 0>>

\* value << k, truncated to 64 bits
Shl(x, k) ==
    LET q == k \div 16
        r == k % 16
        limb(i) == IF i >= 1 /\ i <= 4 THEN x[i] ELSE 0
    IN [i \in 1..4 |->
            (limb(i - q) % Pow2(16 - r)) * Pow2(r) + (limb(i - q - 1) \div Pow2(16 - r))]

\* a < b on uint64
U64Less(a, b) ==
    \E i \in 1..4 : a[i] < b[i] /\ \A j \in (i + 1)..4 : a[j] = b[j]

\* toBit with the MEGABYTE case shifting by 20, the multiplier of bytes
toBitMegaShift20(memory) ==
    LET value == U64(GetValue(memory))
        unit == GetUnit(memory)
    IN CASE unit = "BIT" -> value
         [] unit = "BYTE" -> Shl(value, 3)
         [] unit = "KILOBYTE" -> Shl(value, 13)
         [] unit = "MEGABYTE" -> Shl(value, 20)
         [] unit = "GIGABYTE" -> Shl(value, 33)
         [] unit = "TERABYTE" -> Shl(value, 43)
         [] OTHER -> U64(0)

toBit(memory) ==
    LET value == U64(GetValue(memory))
        unit == GetUnit(memory)
    IN CASE unit = "BIT" -> value
         [] unit = "BYTE" -> Shl(value, 3)
         [] unit = "KILOBYTE" -> Shl(value, 13)
         [] unit = "MEGABYTE" -> Shl(value, 23)
         [] unit = "GIGABYTE" -> Shl(value, 33)
         [] unit = "TERABYTE" -> Shl(value, 43)
         [] OTHER -> U64(0)

\* isQualified with the price test off by one: a record at the max price is rejected
isQualifiedPriceStrict(filter, laptop) ==
    IF laptop.PriceUsd >= filter.MaxPriceUsd THEN FALSE
    ELSE IF GetNumberCores(laptop.Cpu) < filter.MinCpuCores THEN FALSE
    ELSE IF GetMinGhz(laptop.Cpu) < filter.MinCpuGhz THEN FALSE
    ELSE IF U64Less(toBit(laptop.Ram), toBit(filter.MinRam)) THEN FALSE
    ELSE TRUE

isQualified(filter, laptop) ==
    IF laptop.PriceUsd > filter.MaxPriceUsd THEN FALSE
    ELSE IF GetNumberCores(laptop.Cpu) < filter.MinCpuCores THEN FALSE
    ELSE IF GetMinGhz(laptop.Cpu) < filter.MinCpuGhz THEN FALSE
    ELSE IF U64Less(toBit(laptop.Ram), toBit(filter.MinRam)) THEN FALSE
    ELSE TRUE

-----------------------------------------------------------------------------
(* Bounds and input sets *)

\* records handed out by Find and Search that callers hold at one time
MaxResults == 2

Procs == {1, 2}

NotAUUID == "not-a-uuid"

UUID1 == "6ba7b810-9dad-41d1-80b4-00c04fd430c8"

UUID2 == "7c9e6679-7425-40de-944b-e07fc1f90ae7"

UUIDs == {UUID1, UUID2}

IdSeq == <<"", NotAUUID, UUID1, UUID2>>

IdStrings == {IdSeq[i] : i \in 1..Len(IdSeq)}

\* what uuid.NewRandom can give: a random UUID in canonical form, or an error
GenError == "rand reader error"

\* contents a caller gives a record (without the identifier)
Templates ==
    { [PriceUsd |-> 999, Cpu |-> Cpu(4, 25), Ram |-> Mem(8, "GIGABYTE")],
      [PriceUsd |-> 400, Cpu |-> NilMsg, Ram |-> NilMsg] }

Filters ==
    { Filter(1000, 4, 20, Mem(4, "GIGABYTE")),
      Filter(500, 0, 0, NilMsg),
      Filter(1000, 0, 0, NilMsg) }

\* the values a caller writes when it mutates a record it holds
MutatedValues == {7}

-----------------------------------------------------------------------------
(* Heap *)

Range(f) == {f[x] : x \in DOMAIN f}

\* A new pb.Laptop is allocated at an address the allocator chooses, and its
\* sub-messages right after it. The allocator of the model gives the copy
\* stored under identifier id, the request of process p and the k-th record
\* handed out an address of their own.
StoreAddr(id) == 3 * ((CHOOSE i \in 1..Len(IdSeq) : IdSeq[i] = id) - 1) + 1

ReqAddr(p) == 3 * (Len(IdSeq) + p - 1) + 1

ResultAddr(k) == 3 * (Len(IdSeq) + Cardinality(Procs) + k - 1) + 1

\* the three cells at a are free
Free(h, a) == {a, a + 1, a + 2} \cap DOMAIN h = {}

\* the sub-messages a Laptop object points to
Subs(h, a) == {h[a].Cpu, h[a].Ram} \ {Nil}

\* every object reachable from the Laptop objects in roots
Reach(h, roots) == roots \cup UNION {Subs(h, a) : a \in roots}

\* the garbage collector: objects no caller and no store entry refers to are gone
Collect(h, roots) == [a \in Reach(h, roots) |-> h[a]]

\* the content of the record at a, sub-messages followed
Deref(h, a) ==
    [Id |-> h[a].Id,
     PriceUsd |-> h[a].PriceUsd,
     Cpu |-> IF h[a].Cpu = Nil THEN NilMsg ELSE h[h[a].Cpu],
     Ram |-> IF h[a].Ram = Nil THEN NilMsg ELSE h[h[a].Ram]]

Content(h, a) ==
    [PriceUsd |-> Deref(h, a).PriceUsd, Cpu |-> Deref(h, a).Cpu, Ram |-> Deref(h, a).Ram]

\* &pb.Laptop{...} built by a caller at a: a Laptop object and its sub-messages
Build(h, a, id, t) ==
    LET c == IF t.Cpu.kind = "nil" THEN Nil ELSE a + 1
        m == IF t.Ram.kind = "nil" THEN Nil ELSE a + 2
        h1 == (a :> [kind |-> "Laptop", Id |-> id, PriceUsd |-> t.PriceUsd,
                     Cpu |-> c, Ram |-> m]) @@ h
        h2 == IF c = Nil THEN h1 ELSE (c :> t.Cpu) @@ h1
    IN IF m = Nil THEN h2 ELSE (m :> t.Ram) @@ h2

\* deepCopy that assigns the pointer fields as they are: the copy shares the
\* sub-messages of the original
deepCopyShallow(h, laptop, other) ==
    (other :> [kind |-> "Laptop", Id |-> h[laptop].Id, PriceUsd |-> h[laptop].PriceUsd,
               Cpu |-> h[laptop].Cpu, Ram |-> h[laptop].Ram]) @@ h

\* deepCopy that leaves the identifier of the copy at its zero value
deepCopyNoId(h, laptop, other) ==
    LET c == IF h[laptop].Cpu = Nil THEN Nil ELSE other + 1
        m == IF h[laptop].Ram = Nil THEN Nil ELSE other + 2
        h1 == (other :> [kind |-> "Laptop", Id |-> "",
                         PriceUsd |-> h[laptop].PriceUsd, Cpu |-> c, Ram |-> m]) @@ h
        h2 == IF c = Nil THEN h1 ELSE (c :> h[h[laptop].Cpu]) @@ h1
    IN IF m = Nil THEN h2 ELSE (m :> h[h[laptop].Ram]) @@ h2

\* copier.Copy(other, laptop) into other := &pb.Laptop{}: scalar fields are
\* assigned; for a non-nil pointer field a new object is allocated and the
\* struct it points to is assigned into it. The result is the heap.
deepCopy(h, laptop, other) ==
    LET c == IF h[laptop].Cpu = Nil THEN Nil ELSE other + 1
        m == IF h[laptop].Ram = Nil THEN Nil ELSE other + 2
        h1 == (other :> [kind |-> "Laptop", Id |-> h[laptop].Id,
                         PriceUsd |-> h[laptop].PriceUsd, Cpu |-> c, Ram |-> m]) @@ h
        h2 == IF c = Nil THEN h1 ELSE (c :> h[h[laptop].Cpu]) @@ h1
    IN IF m = Nil THEN h2 ELSE (m :> h[h[laptop].Ram]) @@ h2

-----------------------------------------------------------------------------
(* Errors *)

\* an error is the chain of errors it wraps, outermost first
NoError == <<>>

ErrAlreadyExist == <<"record already exist">>

\* fmt.Errorf("cannot copy laptop data: %w", err)
CopyError == <<"cannot copy laptop data", "copier">>

CallbackError == <<"found">>

\* errors.Is(err, target)
errorsIs(err, target) == \E i \in 1..Len(err) : err[i] = target[1]

\* uuid.Parse that accepts every string
uuidParseAny(s) == TRUE

\* uuid.Parse that rejects every string
uuidParseNone(s) == FALSE

\* uuid.Parse(s) succeeds
uuidParseOk(s) == s \in UUIDs

-----------------------------------------------------------------------------
(* State *)

NoRet == [op |-> "none", err |-> NoError, code |-> "none", id |-> "", addr |-> Nil,
          val |-> NilMsg, given |-> "", filter |-> Filter(0, 0, 0, NilMsg), stale |-> {}]

NoArg == [op |-> "none", via |-> "none", laptop |-> Nil, id |-> "",
          filter |-> Filter(0, 0, 0, NilMsg), cb |-> Nil, before |-> {}]

\* NewInMemoryLaptopStore(): an empty map, the mutex unlocked
Init ==
    /\ heap = <<>>
    /\ data = <<>>
    /\ writer = Nil
    /\ readers = {}
    /\ pc = [p \in Procs |-> "idle"]
    /\ arg = [p \in Procs |-> NoArg]
    /\ todo = [p \in Procs |-> {}]
    /\ visited = [p \in Procs |-> <<>>]
    /\ ret = [p \in Procs |-> NoRet]
    /\ reqs = {}
    /\ results = {}
    /\ saved = <<>>
    /\ accepted = {}
    /\ qf = Filter(0, 0, 0, NilMsg)
    /\ ql = [Id |-> "", PriceUsd |-> 0, Cpu |-> NilMsg, Ram |-> NilMsg]
    /\ qdone = FALSE
    /\ qres = FALSE
    /\ bm = NilMsg
    /\ bdone = FALSE
    /\ bres = <<0, 0, 0, 0>>

\* records an operation in flight reads: the caller leaves them alone meanwhile
InUse == {arg[p].laptop : p \in Procs} \ {Nil}

\* Find and Search in flight that have yet to allocate the copy they hand out
Reserved == Cardinality({p \in Procs : pc[p] \in {"RLock", "FindBody", "SearchLoop"}})

\* a caller has room to take one more record
Room == Cardinality(results) + Reserved < MaxResults

\* the lowest result address not in use
FreshResult(h) ==
    ResultAddr(CHOOSE k \in 1..(MaxResults + 1) :
                   /\ Free(h, ResultAddr(k))
                   /\ \A j \in 1..(k - 1) : ~Free(h, ResultAddr(j)))

Roots(d, rq, rs) == Range(d) \cup rq \cup rs

-----------------------------------------------------------------------------
(* Callers *)

\* process p builds the record it is about to send; it lets go of the record
\* it sent before
NewLaptop(p, id, t) ==
    LET h == Collect(heap, Roots(data, reqs \ {ReqAddr(p)}, results))
    IN /\ Free(h, ReqAddr(p))
       /\ reqs' = reqs \cup {ReqAddr(p)}

\* the heap once p has built that record
NewHeap(p, id, t) ==
    Build(Collect(heap, Roots(data, reqs \ {ReqAddr(p)}, results)), ReqAddr(p), id, t)

\* a caller writes to one field of a record it holds: a request it built or a
\* result it got
Mutate(a, field, v) ==
    /\ a \in (reqs \cup results) \ InUse
    /\ Content(heap, a) \in Templates
    /\ \/ /\ field = "PriceUsd"
          /\ heap' = [heap EXCEPT ![a].PriceUsd = v]
       \/ /\ field = "Cpu"
          /\ heap[a].Cpu # Nil
          /\ heap' = [heap EXCEPT ![heap[a].Cpu].NumberCores = v]
       \/ /\ field = "Ram"
          /\ heap[a].Ram # Nil
          /\ heap' = [heap EXCEPT ![heap[a].Ram].Value = v]
    /\ UNCHANGED <<data, writer, readers, pc, arg, todo, visited, ret, reqs, results, saved, accepted, qualVars>>

\* a caller drops a record it was handed
Forget(a) ==
    /\ a \in results \ {arg[p].cb : p \in Procs}
    /\ results' = results \ {a}
    /\ heap' = Collect(heap, Roots(data, reqs, results'))
    /\ UNCHANGED <<data, writer, readers, pc, arg, todo, visited, ret, reqs, saved, accepted, qualVars>>

-----------------------------------------------------------------------------
(* store.mutex *)

\* Lock that does not wait for another writer
LockPendingNoExclusion(p) ==
    /\ pc[p] = "Lock"
    /\ writer' = p
    /\ pc' = [pc EXCEPT ![p] = "LockWait"]
    /\ UNCHANGED <<heap, data, readers, arg, todo, visited, ret, reqs, results, saved, accepted, qualVars>>

\* mutex.Lock(), first half: take the writer slot; new readers now wait
LockPending(p) ==
    /\ pc[p] = "Lock"
    /\ writer = Nil
    /\ writer' = p
    /\ pc' = [pc EXCEPT ![p] = "LockWait"]
    /\ UNCHANGED <<heap, data, readers, arg, todo, visited, ret, reqs, results, saved, accepted, qualVars>>

\* Lock that does not wait for the readers to leave
LockAcquireNoWait(p) ==
    /\ pc[p] = "LockWait"
    /\ pc' = [pc EXCEPT ![p] = "SaveBody"]
    /\ UNCHANGED <<heap, data, writer, readers, arg, todo, visited, ret, reqs, results, saved, accepted, qualVars>>

\* Lock that takes no account of a read lock its own caller holds
LockAcquireOwnReadLock(p) ==
    /\ pc[p] = "LockWait"
    /\ readers \ {p} = {}
    /\ pc' = [pc EXCEPT ![p] = "SaveBody"]
    /\ UNCHANGED <<heap, data, writer, readers, arg, todo, visited, ret, reqs, results, saved, accepted, qualVars>>

\* mutex.Lock(), second half: the readers have left
LockAcquire(p) ==
    /\ pc[p] = "LockWait"
    /\ readers = {}
    /\ pc' = [pc EXCEPT ![p] = "SaveBody"]
    /\ UNCHANGED <<heap, data, writer, readers, arg, todo, visited, ret, reqs, results, saved, accepted, qualVars>>

\* RLock that lets readers in while a writer waits for the readers to leave
RLockReaderPreference(p) ==
    /\ pc[p] = "RLock"
    /\ IF writer = Nil THEN TRUE ELSE pc[writer] = "LockWait"
    /\ readers' = readers \cup {p}
    /\ pc' = [pc EXCEPT ![p] = IF arg[p].op = "Find" THEN "FindBody" ELSE "SearchLoop"]
    /\ todo' = [todo EXCEPT ![p] = IF arg[p].op = "Search" THEN DOMAIN data ELSE {}]
    /\ UNCHANGED <<heap, data, writer, arg, visited, ret, reqs, results, saved, accepted, qualVars>>

\* mutex.RLock(): no writer holds or awaits the lock
RLock(p) ==
    /\ pc[p] = "RLock"
    /\ writer = Nil
    /\ readers' = readers \cup {p}
    /\ pc' = [pc EXCEPT ![p] = IF arg[p].op = "Find" THEN "FindBody" ELSE "SearchLoop"]
    /\ todo' = [todo EXCEPT ![p] = IF arg[p].op = "Search" THEN DOMAIN data ELSE {}]
    /\ UNCHANGED <<heap, data, writer, arg, visited, ret, reqs, results, saved, accepted, qualVars>>

-----------------------------------------------------------------------------
(* InMemoryLaptopStore.Save *)

\* Save without the test for an existing entry: the entry is overwritten
SaveOverwrite(h, d, laptop, copyFails) ==
    IF copyFails
    THEN [err |-> CopyError, heap |-> h, data |-> d]
    ELSE LET other == StoreAddr(h[laptop].Id)
             h1 == deepCopy(h, laptop, other)
         IN [err |-> NoError, heap |-> h1, data |-> (h1[other].Id :> other) @@ d]

\* Save that rejects a record whose identifier is a key, and puts it in the
\* place of the stored one all the same
SaveReplaceExisting(h, d, laptop, copyFails) ==
    LET other == StoreAddr(h[laptop].Id)
        h1 == deepCopy(h, laptop, other)
    IN IF h[laptop].Id \in DOMAIN d
       THEN [err |-> ErrAlreadyExist, heap |-> h1, data |-> (h1[other].Id :> other) @@ d]
       ELSE IF copyFails
       THEN [err |-> CopyError, heap |-> h, data |-> d]
       ELSE [err |-> NoError, heap |-> h1, data |-> (h1[other].Id :> other) @@ d]

\* the body of Save under the write lock: the error it returns, the heap and the map
Save(h, d, laptop, copyFails) ==
    IF h[laptop].Id \in DOMAIN d
    THEN [err |-> ErrAlreadyExist, heap |-> h, data |-> d]
    ELSE IF copyFails
    THEN [err |-> CopyError, heap |-> h, data |-> d]
    ELSE LET other == StoreAddr(h[laptop].Id)
             h1 == deepCopy(h, laptop, other)
         IN [err |-> NoError, heap |-> h1, data |-> (h1[other].Id :> other) @@ d]

\* CreateLaptop without the errors.Is test: every failure of Save is Internal
createLaptopReplyAllInternal(err, id) ==
    IF err # NoError
    THEN [code |-> "Internal", val |-> NilMsg]
    ELSE [code |-> "OK", val |-> [kind |-> "CreateLaptopResponse", Id |-> id]]

\* CreateLaptop after Store.Save returned err for the record with identifier id
createLaptopReply(err, id) ==
    IF err # NoError
    THEN [code |-> IF errorsIs(err, ErrAlreadyExist) THEN "AlreadyExists" ELSE "Internal",
          val |-> NilMsg]
    ELSE [code |-> "OK", val |-> [kind |-> "CreateLaptopResponse", Id |-> id]]

\* a caller builds a record and calls store.Save with it
SaveCall(p, id, t) ==
    /\ pc[p] = "idle"
    /\ NewLaptop(p, id, t)
    /\ heap' = NewHeap(p, id, t)
    /\ pc' = [pc EXCEPT ![p] = "Lock"]
    /\ arg' = [arg EXCEPT ![p] = [NoArg EXCEPT !.op = "Save", !.via = "Save",
                                                !.laptop = ReqAddr(p)]]
    /\ ret' = [ret EXCEPT ![p] = NoRet]
    /\ visited' = [visited EXCEPT ![p] = <<>>]
    /\ accepted' = accepted \ {ReqAddr(p)}
    /\ UNCHANGED <<data, writer, readers, todo, results, saved, qualVars>>

\* Save runs under the lock, unlocks and returns; when CreateLaptop called it,
\* CreateLaptop turns the outcome into its reply
SaveBody(p, copyFails) ==
    /\ pc[p] = "SaveBody"
    /\ LET r == arg[p].laptop
           id == heap[r].Id
           s == Save(heap, data, r, copyFails)
           reply == createLaptopReply(s.err, id)
       IN /\ heap' = s.heap
          /\ data' = s.data
          /\ saved' = IF s.err = NoError THEN (id :> Deref(heap, r)) @@ saved ELSE saved
          /\ accepted' = IF s.err = NoError THEN accepted \cup {r} ELSE accepted
          /\ ret' = [ret EXCEPT ![p] =
                        IF arg[p].via = "Save"
                        THEN [NoRet EXCEPT !.op = "Save", !.err = s.err, !.id = id]
                        ELSE [NoRet EXCEPT !.op = "CreateLaptop", !.err = s.err, !.id = id,
                                           !.code = reply.code, !.val = reply.val,
                                           !.given = arg[p].id]]
    /\ writer' = Nil
    /\ pc' = [pc EXCEPT ![p] = "idle"]
    /\ arg' = [arg EXCEPT ![p] = NoArg]
    /\ UNCHANGED <<readers, todo, visited, reqs, results, qualVars>>

\* Save returns err to its caller and the deferred Unlock runs: the caller is
\* the client of the store, CreateLaptop, or a callback of Search
SaveLeave(p, err) ==
    LET id == heap[arg[p].laptop].Id
        reply == createLaptopReply(err, id)
    IN /\ writer' = Nil
       /\ IF arg[p].via = "Callback"
          THEN /\ pc' = [pc EXCEPT ![p] = "Callback"]
               /\ arg' = [arg EXCEPT ![p].via = "Search", ![p].laptop = Nil]
               /\ ret' = ret
          ELSE /\ pc' = [pc EXCEPT ![p] = "idle"]
               /\ arg' = [arg EXCEPT ![p] = NoArg]
               /\ ret' = [ret EXCEPT ![p] =
                            IF arg[p].via = "Save"
                            THEN [NoRet EXCEPT !.op = "Save", !.err = err, !.id = id]
                            ELSE [NoRet EXCEPT !.op = "CreateLaptop", !.err = err, !.id = id,
                                               !.code = reply.code, !.val = reply.val,
                                               !.given = arg[p].id]]

\* Save under the write lock, first step: the test for an existing entry.
\* When Save has returned its caller lets go of the record it passed.
SaveCheck(p) ==
    /\ pc[p] = "SaveBody"
    /\ IF heap[arg[p].laptop].Id \in DOMAIN data
       THEN /\ SaveLeave(p, ErrAlreadyExist)
            /\ reqs' = reqs \ {arg[p].laptop}
            /\ heap' = Collect(heap, Roots(data, reqs', results))
       ELSE /\ pc' = [pc EXCEPT ![p] = "SaveCopy"]
            /\ UNCHANGED <<heap, writer, arg, ret, reqs>>
    /\ UNCHANGED <<data, readers, todo, visited, results, saved, accepted, qualVars>>

\* Save under the write lock, second step: the copy and the assignment to the map
SaveInsert(p, copyFails) ==
    /\ pc[p] = "SaveCopy"
    /\ LET r == arg[p].laptop
           id == heap[r].Id
           other == StoreAddr(id)
           h1 == deepCopy(heap, r, other)
       IN /\ reqs' = reqs \ {r}
          /\ IF copyFails
             THEN /\ SaveLeave(p, CopyError)
                  /\ heap' = Collect(heap, Roots(data, reqs', results))
                  /\ UNCHANGED <<data, saved>>
             ELSE /\ data' = (h1[other].Id :> other) @@ data
                  /\ heap' = Collect(h1, Roots(data', reqs', results))
                  /\ saved' = (id :> Deref(heap, r)) @@ saved
                  /\ SaveLeave(p, NoError)
    /\ UNCHANGED <<readers, todo, visited, results, accepted, qualVars>>

-----------------------------------------------------------------------------
(* LaptopServer.CreateLaptop *)

\* CreateLaptop that generates an identifier and does not assign it to the record
CreateLaptopKeepsEmptyId(p, id, t, gen) ==
    /\ pc[p] = "idle"
    /\ NewLaptop(p, id, t)
    /\ IF id # ""
       THEN IF ~uuidParseOk(id)
            THEN /\ ret' = [ret EXCEPT ![p] = [NoRet EXCEPT !.op = "CreateLaptop",
                                !.code = "InvalidArgument", !.id = id, !.given = id]]
                 /\ heap' = NewHeap(p, id, t)
                 /\ UNCHANGED <<pc, arg>>
            ELSE /\ pc' = [pc EXCEPT ![p] = "Lock"]
                 /\ arg' = [arg EXCEPT ![p] = [NoArg EXCEPT !.op = "Save",
                                !.via = "CreateLaptop", !.laptop = ReqAddr(p), !.id = id,
                                !.before = DOMAIN data]]
                 /\ ret' = [ret EXCEPT ![p] = NoRet]
                 /\ heap' = NewHeap(p, id, t)
       ELSE IF gen = GenError
            THEN /\ ret' = [ret EXCEPT ![p] = [NoRet EXCEPT !.op = "CreateLaptop",
                                !.code = "Internal", !.id = id, !.given = id]]
                 /\ heap' = NewHeap(p, id, t)
                 /\ UNCHANGED <<pc, arg>>
            ELSE /\ pc' = [pc EXCEPT ![p] = "Lock"]
                 /\ arg' = [arg EXCEPT ![p] = [NoArg EXCEPT !.op = "Save",
                                !.via = "CreateLaptop", !.laptop = ReqAddr(p), !.id = id,
                                !.before = DOMAIN data]]
                 /\ ret' = [ret EXCEPT ![p] = NoRet]
                 /\ heap' = NewHeap(p, id, t)
    /\ visited' = [visited EXCEPT ![p] = <<>>]
    /\ accepted' = accepted \ {ReqAddr(p)}
    /\ UNCHANGED <<data, writer, readers, todo, results, saved, qualVars>>

\* CreateLaptop, for a request with identifier id and content t, up to its call
\* of Store.Save: gen is what uuid.NewRandom gives when it is called
CreateLaptop(p, id, t, gen) ==
    /\ pc[p] = "idle"
    /\ NewLaptop(p, id, t)
    /\ IF id # ""
       THEN IF ~uuidParseOk(id)
            THEN /\ ret' = [ret EXCEPT ![p] = [NoRet EXCEPT !.op = "CreateLaptop",
                                !.code = "InvalidArgument", !.id = id, !.given = id]]
                 /\ heap' = NewHeap(p, id, t)
                 /\ UNCHANGED <<pc, arg>>
            ELSE /\ pc' = [pc EXCEPT ![p] = "Lock"]
                 /\ arg' = [arg EXCEPT ![p] = [NoArg EXCEPT !.op = "Save",
                                !.via = "CreateLaptop", !.laptop = ReqAddr(p), !.id = id,
                                !.before = DOMAIN data]]
                 /\ ret' = [ret EXCEPT ![p] = NoRet]
                 /\ heap' = NewHeap(p, id, t)
       ELSE IF gen = GenError
            THEN /\ ret' = [ret EXCEPT ![p] = [NoRet EXCEPT !.op = "CreateLaptop",
                                !.code = "Internal", !.id = id, !.given = id]]
                 /\ heap' = NewHeap(p, id, t)
                 /\ UNCHANGED <<pc, arg>>
            ELSE /\ pc' = [pc EXCEPT ![p] = "Lock"]
                 /\ arg' = [arg EXCEPT ![p] = [NoArg EXCEPT !.op = "Save",
                                !.via = "CreateLaptop", !.laptop = ReqAddr(p), !.id = id,
                                !.before = DOMAIN data]]
                 /\ ret' = [ret EXCEPT ![p] = NoRet]
                 /\ heap' = [NewHeap(p, id, t) EXCEPT ![ReqAddr(p)].Id = gen]
    /\ visited' = [visited EXCEPT ![p] = <<>>]
    /\ accepted' = accepted \ {ReqAddr(p)}
    /\ UNCHANGED <<data, writer, readers, todo, results, saved, qualVars>>

-----------------------------------------------------------------------------
(* InMemoryLaptopStore.Find *)

\* Find that hands out the stored record itself
FindNoCopy(h, d, id, other, copyFails1, copyFails2) ==
    IF id \notin DOMAIN d
    THEN [err |-> NoError, heap |-> h, addr |-> Nil]
    ELSE [err |-> NoError, heap |-> h, addr |-> d[id]]

\* Find that reports an identifier that is no key as an error
FindAbsentIsError(h, d, id, other, copyFails1, copyFails2) ==
    IF id \notin DOMAIN d
    THEN [err |-> <<"not found">>, heap |-> h, addr |-> Nil]
    ELSE IF copyFails1
    THEN [err |-> CopyError, heap |-> h, addr |-> Nil]
    ELSE IF copyFails2
    THEN [err |-> CopyError, heap |-> h, addr |-> Nil]
    ELSE [err |-> NoError, heap |-> deepCopy(h, d[id], other), addr |-> other]

\* the body of Find under the read lock, handing out its copy at other:
\* copier.Copy into a record that is dropped, then deepCopy, each of which may fail
Find(h, d, id, other, copyFails1, copyFails2) ==
    IF id \notin DOMAIN d
    THEN [err |-> NoError, heap |-> h, addr |-> Nil]
    ELSE IF copyFails1
    THEN [err |-> CopyError, heap |-> h, addr |-> Nil]
    ELSE IF copyFails2
    THEN [err |-> CopyError, heap |-> h, addr |-> Nil]
    ELSE [err |-> NoError, heap |-> deepCopy(h, d[id], other), addr |-> other]

\* history: which of the caller's records for id, the request that was stored
\* and the results handed out, have been written to since
Stale(id) ==
    {"request" : r \in {x \in accepted : heap[x].Id = id /\ Deref(heap, x) # saved[id]}}
    \cup {"result" : a \in {x \in results : heap[x].Id = id /\ Deref(heap, x) # saved[id]}}

FindCall(p, id) ==
    /\ pc[p] = "idle"
    /\ Room
    /\ pc' = [pc EXCEPT ![p] = "RLock"]
    /\ arg' = [arg EXCEPT ![p] = [NoArg EXCEPT !.op = "Find", !.via = "Find", !.id = id]]
    /\ ret' = [ret EXCEPT ![p] = NoRet]
    /\ visited' = [visited EXCEPT ![p] = <<>>]
    /\ UNCHANGED <<heap, data, writer, readers, todo, reqs, results, saved, accepted, qualVars>>

FindBody(p, copyFails1, copyFails2) ==
    /\ pc[p] = "FindBody"
    /\ LET f == Find(heap, data, arg[p].id, FreshResult(heap), copyFails1, copyFails2)
       IN /\ heap' = f.heap
          /\ results' = results \cup ({f.addr} \ {Nil})
          /\ ret' = [ret EXCEPT ![p] =
                        [NoRet EXCEPT !.op = "Find", !.err = f.err, !.id = arg[p].id,
                                      !.addr = f.addr, !.stale = Stale(arg[p].id),
                                      !.val = IF f.addr = Nil THEN NilMsg
                                              ELSE Deref(f.heap, f.addr)]]
    /\ readers' = readers \ {p}
    /\ pc' = [pc EXCEPT ![p] = "idle"]
    /\ arg' = [arg EXCEPT ![p] = NoArg]
    /\ UNCHANGED <<data, writer, todo, visited, reqs, saved, accepted, qualVars>>

-----------------------------------------------------------------------------
(* InMemoryLaptopStore.Search *)

SearchCall(p, filter) ==
    /\ pc[p] = "idle"
    /\ Room
    /\ pc' = [pc EXCEPT ![p] = "RLock"]
    /\ arg' = [arg EXCEPT ![p] = [NoArg EXCEPT !.op = "Search", !.via = "Search",
                                                !.filter = filter]]
    /\ ret' = [ret EXCEPT ![p] = NoRet]
    /\ visited' = [visited EXCEPT ![p] = <<>>]
    /\ UNCHANGED <<heap, data, writer, readers, todo, reqs, results, saved, accepted, qualVars>>

\* Search returns err: the deferred RUnlock runs
SearchReturn(p, err) ==
    /\ ret' = [ret EXCEPT ![p] = [NoRet EXCEPT !.op = "Search", !.err = err,
                                                !.filter = arg[p].filter]]
    /\ readers' = readers \ {p}
    /\ pc' = [pc EXCEPT ![p] = "idle"]
    /\ arg' = [arg EXCEPT ![p] = NoArg]
    /\ todo' = [todo EXCEPT ![p] = {}]

\* the range loop without the isQualified test: every record is handed out
SearchIterUnfiltered(p, id, copyFails) ==
    /\ pc[p] = "SearchLoop"
    /\ id \in todo[p]
    /\ IF copyFails
       THEN /\ SearchReturn(p, CopyError)
            /\ UNCHANGED <<heap, visited, results>>
       ELSE LET other == FreshResult(heap)
            IN /\ heap' = deepCopy(heap, data[id], other)
               /\ results' = results \cup {other}
               /\ arg' = [arg EXCEPT ![p].cb = other]
               /\ visited' = [visited EXCEPT ![p] = Append(@, id)]
               /\ todo' = [todo EXCEPT ![p] = @ \ {id}]
               /\ pc' = [pc EXCEPT ![p] = "Callback"]
               /\ UNCHANGED <<readers, ret>>
    /\ UNCHANGED <<data, writer, reqs, saved, accepted, qualVars>>

\* the range loop giving up the read lock while the callback runs
SearchIterUnlocksForCallback(p, id, copyFails) ==
    /\ pc[p] = "SearchLoop"
    /\ id \in todo[p]
    /\ IF ~isQualified(arg[p].filter, Deref(heap, data[id]))
       THEN /\ todo' = [todo EXCEPT ![p] = @ \ {id}]
            /\ UNCHANGED <<heap, readers, pc, arg, visited, ret, results>>
       ELSE IF copyFails
       THEN /\ SearchReturn(p, CopyError)
            /\ UNCHANGED <<heap, visited, results>>
       ELSE LET other == FreshResult(heap)
            IN /\ heap' = deepCopy(heap, data[id], other)
               /\ results' = results \cup {other}
               /\ arg' = [arg EXCEPT ![p].cb = other]
               /\ visited' = [visited EXCEPT ![p] = Append(@, id)]
               /\ todo' = [todo EXCEPT ![p] = @ \ {id}]
               /\ pc' = [pc EXCEPT ![p] = "Callback"]
               /\ readers' = readers \ {p}
               /\ UNCHANGED ret
    /\ UNCHANGED <<data, writer, reqs, saved, accepted, qualVars>>

\* one turn of the range loop, for the key id the map iteration yields next:
\* a qualified record is copied and the callback is entered with the copy
SearchIter(p, id, copyFails) ==
    /\ pc[p] = "SearchLoop"
    /\ id \in todo[p]
    /\ IF ~isQualified(arg[p].filter, Deref(heap, data[id]))
       THEN /\ todo' = [todo EXCEPT ![p] = @ \ {id}]
            /\ UNCHANGED <<heap, readers, pc, arg, visited, ret, results>>
       ELSE IF copyFails
       THEN /\ SearchReturn(p, CopyError)
            /\ UNCHANGED <<heap, visited, results>>
       ELSE LET other == FreshResult(heap)
            IN /\ heap' = deepCopy(heap, data[id], other)
               /\ results' = results \cup {other}
               /\ arg' = [arg EXCEPT ![p].cb = other]
               /\ visited' = [visited EXCEPT ![p] = Append(@, id)]
               /\ todo' = [todo EXCEPT ![p] = @ \ {id}]
               /\ pc' = [pc EXCEPT ![p] = "Callback"]
               /\ UNCHANGED <<readers, ret>>
    /\ UNCHANGED <<data, writer, reqs, saved, accepted, qualVars>>

\* the loop of Search that goes on after the callback returned an error
CallbackReturnIgnoreError(p, cbFails, keep) ==
    /\ pc[p] = "Callback"
    /\ keep => Cardinality(results) + Reserved + 1 <= MaxResults
    /\ results' = IF keep THEN results ELSE results \ {arg[p].cb}
    /\ heap' = Collect(heap, Roots(data, reqs, results'))
    /\ pc' = [pc EXCEPT ![p] = "SearchLoop"]
    /\ arg' = [arg EXCEPT ![p].cb = Nil]
    /\ UNCHANGED <<readers, ret, todo>>
    /\ UNCHANGED <<data, writer, visited, reqs, saved, accepted, qualVars>>

\* the callback found calls store.Save with a record it builds
CallbackSave(p, id, t) ==
    /\ pc[p] = "Callback"
    /\ arg[p].via = "Search"
    /\ NewLaptop(p, id, t)
    /\ heap' = NewHeap(p, id, t)
    /\ pc' = [pc EXCEPT ![p] = "Lock"]
    /\ arg' = [arg EXCEPT ![p].via = "Callback", ![p].laptop = ReqAddr(p)]
    /\ accepted' = accepted \ {ReqAddr(p)}
    /\ UNCHANGED <<data, writer, readers, todo, visited, ret, results, saved, qualVars>>

\* found(other) returns: with an error Search returns it; the callback either
\* keeps the record it was given or lets go of it
CallbackReturn(p, cbFails, keep) ==
    /\ pc[p] = "Callback"
    /\ keep => Cardinality(results) + Reserved + 1 <= MaxResults
    /\ results' = IF keep THEN results ELSE results \ {arg[p].cb}
    /\ heap' = Collect(heap, Roots(data, reqs, results'))
    /\ IF cbFails
       THEN SearchReturn(p, CallbackError)
       ELSE /\ pc' = [pc EXCEPT ![p] = "SearchLoop"]
            /\ arg' = [arg EXCEPT ![p].cb = Nil]
            /\ UNCHANGED <<readers, ret, todo>>
    /\ UNCHANGED <<data, writer, visited, reqs, saved, accepted, qualVars>>

\* the range loop has visited every key: Search returns nil
SearchDone(p) ==
    /\ pc[p] = "SearchLoop"
    /\ todo[p] = {}
    /\ SearchReturn(p, NoError)
    /\ UNCHANGED <<heap, data, writer, visited, reqs, results, saved, accepted, qualVars>>

-----------------------------------------------------------------------------
(* The service, used by one caller at a time *)

Solo == {1}

Next ==
    \/ \E a \in DOMAIN heap : Forget(a)
    \/ \E p \in Solo, id \in UUIDs, t \in Templates : SaveCall(p, id, t)
    \/ \E p \in Solo, id \in IdStrings, t \in Templates, gen \in UUIDs \cup {GenError} :
           CreateLaptop(p, id, t, gen)
    \/ \E p \in Solo : LockPending(p)
    \/ \E p \in Solo : LockAcquire(p)
    \/ \E p \in Solo, cf \in BOOLEAN : SaveBody(p, cf)
    \/ \E p \in Solo, id \in IdStrings : FindCall(p, id)
    \/ \E p \in Solo : RLock(p)
    \/ \E p \in Solo, cf1 \in BOOLEAN, cf2 \in BOOLEAN : FindBody(p, cf1, cf2)
    \/ \E p \in Solo, f \in Filters : SearchCall(p, f)
    \/ \E p \in Solo, id \in IdStrings, cf \in BOOLEAN : SearchIter(p, id, cf)
    \/ \E p \in Solo, cbf \in BOOLEAN, keep \in BOOLEAN : CallbackReturn(p, cbf, keep)
    \/ \E p \in Solo : SearchDone(p)

Spec == Init /\ [][Next]_vars

-----------------------------------------------------------------------------
(* The store, with a caller that writes to the records it holds *)

\* the caller works on one identifier
IsolationIds == {UUID1}

NextIsolation ==
    \/ \E a \in DOMAIN heap, f \in {"PriceUsd", "Cpu", "Ram"}, v \in MutatedValues : Mutate(a, f, v)
    \/ \E a \in DOMAIN heap : Forget(a)
    \/ \E p \in Solo, id \in IsolationIds, t \in Templates : SaveCall(p, id, t)
    \/ \E p \in Solo : LockPending(p)
    \/ \E p \in Solo : LockAcquire(p)
    \/ \E p \in Solo, cf \in BOOLEAN : SaveBody(p, cf)
    \/ \E p \in Solo, id \in IsolationIds : FindCall(p, id)
    \/ \E p \in Solo : RLock(p)
    \/ \E p \in Solo, cf1 \in BOOLEAN, cf2 \in BOOLEAN : FindBody(p, cf1, cf2)
    \/ \E p \in Solo, f \in Filters : SearchCall(p, f)
    \/ \E p \in Solo, id \in IdStrings, cf \in BOOLEAN : SearchIter(p, id, cf)
    \/ \E p \in Solo, cbf \in BOOLEAN, keep \in BOOLEAN : CallbackReturn(p, cbf, keep)
    \/ \E p \in Solo : SearchDone(p)

SpecIsolation == Init /\ [][NextIsolation]_vars

-----------------------------------------------------------------------------
(* The service, used by two callers at once: every step of one caller may
   fall between two steps of the other *)

\* Save is called with one identifier; CreateLaptop is called without
\* identifier and uuid.NewRandom gives another one
ConcIds == {UUID1}

ConcGenerated == {UUID2}

\* the content of the records CreateLaptop and the callback are given
PlainTemplates == {t \in Templates : t.Cpu = NilMsg}

ConcFilters == {Filter(1000, 0, 0, NilMsg)}

NextConc ==
    \/ \E a \in DOMAIN heap : Forget(a)
    \/ \E p \in Procs, id \in ConcIds, t \in Templates : SaveCall(p, id, t)
    \/ \E p \in Procs, t \in PlainTemplates, gen \in ConcGenerated :
           CreateLaptop(p, "", t, gen)
    \/ \E p \in Procs : LockPending(p)
    \/ \E p \in Procs : LockAcquire(p)
    \/ \E p \in Procs : SaveCheck(p)
    \/ \E p \in Procs, cf \in BOOLEAN : SaveInsert(p, cf)
    \/ \E p \in Procs, id \in UUIDs : FindCall(p, id)
    \/ \E p \in Procs : RLock(p)
    \/ \E p \in Procs, cf1 \in BOOLEAN, cf2 \in BOOLEAN : FindBody(p, cf1, cf2)
    \/ \E p \in Procs, f \in ConcFilters : SearchCall(p, f)
    \/ \E p \in Procs, id \in UUIDs, cf \in BOOLEAN : SearchIter(p, id, cf)
    \/ \E p \in Procs, id \in ConcIds, t \in PlainTemplates : CallbackSave(p, id, t)
    \/ \E p \in Procs, cbf \in BOOLEAN, keep \in BOOLEAN : CallbackReturn(p, cbf, keep)
    \/ \E p \in Procs : SearchDone(p)

SpecConc == Init /\ [][NextConc]_vars

-----------------------------------------------------------------------------
(* The store, used by two callers at once, whose operations go on once they
   can: callbacks return and the scheduler is fair *)

NextFair ==
    \/ \E a \in DOMAIN heap : Forget(a)
    \/ \E p \in Procs, id \in ConcIds, t \in PlainTemplates : SaveCall(p, id, t)
    \/ \E p \in Procs : LockPending(p)
    \/ \E p \in Procs : LockAcquire(p)
    \/ \E p \in Procs : SaveCheck(p)
    \/ \E p \in Procs, cf \in BOOLEAN : SaveInsert(p, cf)
    \/ \E p \in Procs, id \in ConcIds : FindCall(p, id)
    \/ \E p \in Procs : RLock(p)
    \/ \E p \in Procs, cf1 \in BOOLEAN, cf2 \in BOOLEAN : FindBody(p, cf1, cf2)
    \/ \E p \in Procs, f \in ConcFilters : SearchCall(p, f)
    \/ \E p \in Procs, id \in ConcIds, cf \in BOOLEAN : SearchIter(p, id, cf)
    \/ \E p \in Procs, cbf \in BOOLEAN, keep \in BOOLEAN : CallbackReturn(p, cbf, keep)
    \/ \E p \in Procs : SearchDone(p)

\* a step of Find or Search of p under the read lock, callback included
ReaderStep(p) ==
    \/ \E cf1 \in BOOLEAN, cf2 \in BOOLEAN : FindBody(p, cf1, cf2)
    \/ \E id \in ConcIds, cf \in BOOLEAN : SearchIter(p, id, cf)
    \/ \E cbf \in BOOLEAN, keep \in BOOLEAN : CallbackReturn(p, cbf, keep)
    \/ SearchDone(p)

\* a step of Save of p under the write lock
WriterStep(p) == SaveCheck(p) \/ \E cf \in BOOLEAN : SaveInsert(p, cf)

\* A caller that can go on does: a Find, a Search and its callback, and a Save
\* in its critical section run to their end; a writer that waits for the
\* readers gets the lock when the last one has left. The mutex among writers
\* hands the lock to a waiter that has been passed over (sync.Mutex,
\* starvation mode), hence the strong fairness of the first half of Lock.
Fairness ==
    \A p \in Procs :
        /\ WF_vars(ReaderStep(p))
        /\ WF_vars(WriterStep(p))
        /\ WF_vars(LockAcquire(p))
        /\ SF_vars(LockPending(p))

SpecFair == Init /\ [][NextFair]_vars /\ Fairness

-----------------------------------------------------------------------------
(* The service with a store that is written through CreateLaptop only *)

NextCreate ==
    \/ \E a \in DOMAIN heap : Forget(a)
    \/ \E p \in Solo, id \in IdStrings, t \in Templates, gen \in UUIDs \cup {GenError} :
           CreateLaptop(p, id, t, gen)
    \/ \E p \in Solo : LockPending(p)
    \/ \E p \in Solo : LockAcquire(p)
    \/ \E p \in Solo, cf \in BOOLEAN : SaveBody(p, cf)
    \/ \E p \in Solo, id \in IdStrings : FindCall(p, id)
    \/ \E p \in Solo : RLock(p)
    \/ \E p \in Solo, cf1 \in BOOLEAN, cf2 \in BOOLEAN : FindBody(p, cf1, cf2)
    \/ \E p \in Solo, f \in Filters : SearchCall(p, f)
    \/ \E p \in Solo, id \in IdStrings, cf \in BOOLEAN : SearchIter(p, id, cf)
    \/ \E p \in Solo, cbf \in BOOLEAN, keep \in BOOLEAN : CallbackReturn(p, cbf, keep)
    \/ \E p \in Solo : SearchDone(p)

SpecCreate == Init /\ [][NextCreate]_vars

-----------------------------------------------------------------------------
(* Claims about the store and the handler, under Spec *)

\* what the store holds: the content of the record under each identifier
StoreContent == [id \in DOMAIN data |-> Deref(heap, data[id])]

\* process p takes the step in which Save returns
SaveReturns(p) == pc[p] = "SaveBody" /\ pc'[p] = "idle"

\* C1: a Save whose identifier is already a key returns ErrAlreadyExist and
\* leaves the whole store unchanged (first write wins); a Save that succeeds
\* carries an identifier that was no key, and no key is ever removed, so two
\* successful Saves never carry the same identifier.
C1_DuplicateSaveRejected ==
    [][/\ DOMAIN data \subseteq DOMAIN data'
       /\ \A p \in Procs : SaveReturns(p) =>
            LET id == heap[arg[p].laptop].Id
            IN /\ id \in DOMAIN data =>
                    /\ ret'[p].err = ErrAlreadyExist
                    /\ data' = data
                    /\ StoreContent' = StoreContent
                    /\ StoreContent'[id] = saved[id]
               /\ ret'[p].err = NoError => id \notin DOMAIN data /\ id \in DOMAIN data'
      ]_vars

\* a Save was rejected for a record whose content differs from the stored one,
\* which is still the one first written
C1_Witness ==
    \E p \in Procs :
        /\ ret[p].op = "Save"
        /\ ret[p].err = ErrAlreadyExist
        /\ ret[p].id \in DOMAIN data
        /\ Content(heap, ReqAddr(p)) # Content(heap, data[ret[p].id])
        /\ Deref(heap, data[ret[p].id]) = saved[ret[p].id]

\* process p takes the step in which CreateLaptop returns after calling Save
CreateReturns(p) == SaveReturns(p) /\ arg[p].via = "CreateLaptop"

\* process p takes the step CreateLaptop, up to its call of Save, for a request
\* with identifier id
CreateStep(p, id) ==
    /\ pc[p] = "idle"
    /\ arg'[p].via = "CreateLaptop" \/ ret'[p].op = "CreateLaptop"
    /\ ReqAddr(p) \in reqs'
    /\ arg'[p].id = id \/ ret'[p].given = id
    /\ \E t \in Templates, gen \in UUIDs \cup {GenError} : CreateLaptop(p, id, t, gen)

\* C4: when Save fails with ErrAlreadyExist CreateLaptop answers AlreadyExists,
\* when Save fails with another error it answers Internal, in both cases with
\* no identifier; when Save succeeds the reply carries the identifier under
\* which the record was saved.
C4_SaveOutcomeToStatus ==
    [][\A p \in Procs : CreateReturns(p) =>
          LET id == heap[arg[p].laptop].Id
              r == ret'[p]
          IN /\ r.op = "CreateLaptop"
             /\ id \in DOMAIN data =>
                  /\ errorsIs(r.err, ErrAlreadyExist)
                  /\ r.code = "AlreadyExists"
                  /\ r.val = NilMsg
             /\ (id \notin DOMAIN data /\ data' = data) =>
                  /\ r.err # NoError
                  /\ ~errorsIs(r.err, ErrAlreadyExist)
                  /\ r.code = "Internal"
                  /\ r.val = NilMsg
             /\ data' # data =>
                  /\ r.err = NoError
                  /\ r.code = "OK"
                  /\ r.val = [kind |-> "CreateLaptopResponse", Id |-> id]
                  /\ DOMAIN data' = DOMAIN data \cup {id}
                  /\ heap'[data'[id]].Id = id
      ]_vars

\* CreateLaptop answered Internal after the copy in Save failed, and
\* AlreadyExists to another request
C4_Witness ==
    \E p \in Procs :
        /\ ret[p].op = "CreateLaptop"
        /\ ret[p].code = "Internal"
        /\ ret[p].err = CopyError
        /\ ret[p].val = NilMsg
        /\ ret[p].id \notin DOMAIN data

\* C5: CreateLaptop with a non-empty identifier that is no well-formed UUID
\* answers InvalidArgument without calling Save; the store is unchanged.
C5_MalformedIdRejected ==
    [][\A p \in Procs, id \in IdStrings \ ({""} \cup UUIDs) :
          CreateStep(p, id) =>
              /\ ret'[p].op = "CreateLaptop"
              /\ ret'[p].code = "InvalidArgument"
              /\ ret'[p].val = NilMsg
              /\ pc'[p] = "idle"
              /\ arg'[p] = NoArg
              /\ writer' = writer
              /\ data' = data
              /\ StoreContent' = StoreContent
      ]_vars

\* "not-a-uuid" was rejected while the store held a record
C5_Witness ==
    \E p \in Procs :
        /\ ret[p].op = "CreateLaptop"
        /\ ret[p].code = "InvalidArgument"
        /\ ret[p].given = NotAUUID
        /\ DOMAIN data # {}
        /\ NotAUUID \notin DOMAIN data

\* C6 as stated: CreateLaptop with an empty identifier always succeeds.
C6_EmptyIdAlwaysSucceeds ==
    \A p \in Procs :
        (ret[p].op = "CreateLaptop" /\ ret[p].given = "") =>
            /\ ret[p].code = "OK"
            /\ ret[p].val.kind = "CreateLaptopResponse"
            /\ ret[p].val.Id \in DOMAIN data

\* C6, amended: CreateLaptop with an empty identifier either fails, with
\* Internal when uuid.NewRandom or the copy in Save fails and with
\* AlreadyExists when the generated UUID is already a key, leaving the store
\* unchanged and returning no identifier; or it succeeds, and then it returns
\* the generated well-formed UUID, which was no key of the store before the
\* request, and the store holds the record under exactly that identifier.
C6_EmptyIdGeneratedOrFails ==
    [][\A p \in Procs :
          /\ CreateStep(p, "") =>
                /\ data' = data
                /\ StoreContent' = StoreContent
                /\ \/ /\ pc'[p] = "idle"
                      /\ ret'[p].code = "Internal"
                      /\ ret'[p].val = NilMsg
                   \/ /\ pc'[p] = "Lock"
                      /\ arg'[p].laptop = ReqAddr(p)
                      /\ heap'[ReqAddr(p)].Id \in UUIDs
          /\ (CreateReturns(p) /\ arg[p].id = "") =>
                LET id == heap[arg[p].laptop].Id
                    r == ret'[p]
                IN /\ uuidParseOk(id)
                   /\ r.code \in {"OK", "AlreadyExists", "Internal"}
                   /\ r.code = "AlreadyExists" <=> id \in DOMAIN data
                   /\ r.code = "Internal" => r.err = CopyError
                   /\ r.code # "OK" =>
                        /\ r.val = NilMsg
                        /\ data' = data
                        /\ StoreContent' = StoreContent
                   /\ r.code = "OK" =>
                        /\ r.val = [kind |-> "CreateLaptopResponse", Id |-> id]
                        /\ id \notin arg[p].before
                        /\ id \notin DOMAIN data
                        /\ DOMAIN data' = DOMAIN data \cup {id}
                        /\ StoreContent'[id] = Deref(heap, arg[p].laptop)
                        /\ \A k \in DOMAIN data : StoreContent'[k] = StoreContent[k]
      ]_vars

\* a request without identifier was stored under a generated UUID while the
\* store already held another record
C6_Witness ==
    \E p \in Procs :
        /\ ret[p].op = "CreateLaptop"
        /\ ret[p].given = ""
        /\ ret[p].code = "OK"
        /\ ret[p].val.Id \in UUIDs
        /\ ret[p].val.Id \in DOMAIN data
        /\ Deref(heap, data[ret[p].val.Id]) = Deref(heap, ReqAddr(p))
        /\ Cardinality(DOMAIN data) = 2

\* C7: CreateLaptop with a well-formed UUID goes on to Save whether or not the
\* UUID is a key of the store; for a UUID that is a key Save fails and
\* CreateLaptop answers AlreadyExists, never InvalidArgument, and the record
\* first stored stays.
C7_ValidIdCollisionDetectedBySave ==
    [][\A p \in Procs :
          /\ \A id \in UUIDs :
                CreateStep(p, id) =>
                    /\ pc'[p] = "Lock"
                    /\ arg'[p].laptop = ReqAddr(p)
                    /\ heap'[ReqAddr(p)].Id = id
                    /\ data' = data
          /\ (CreateReturns(p) /\ arg[p].id \in DOMAIN data) =>
                /\ ret'[p].code = "AlreadyExists"
                /\ data' = data
                /\ StoreContent' = StoreContent
                /\ StoreContent'[arg[p].id] = saved[arg[p].id]
      ]_vars

\* a second CreateLaptop with a stored UUID and another content was answered
\* AlreadyExists, and the first record is in place
C7_Witness ==
    \E p \in Procs :
        /\ ret[p].op = "CreateLaptop"
        /\ ret[p].given \in UUIDs
        /\ ret[p].code = "AlreadyExists"
        /\ ret[p].given \in DOMAIN data
        /\ Content(heap, ReqAddr(p)) # Content(heap, data[ret[p].given])
        /\ Deref(heap, data[ret[p].given]) = saved[ret[p].given]

\* the identifiers in a sequence, and whether none occurs twice
Elems(q) == {q[i] : i \in 1..Len(q)}

NoRepeat(q) == Cardinality(Elems(q)) = Len(q)

\* C10: a Search in which no copy and no callback fails invokes the callback
\* exactly once for every stored record that qualifies and for no other, and
\* returns nil; Search leaves the store unchanged.
C10_SearchVisitsQualifiedOnce ==
    [][\A p \in Procs :
          /\ pc[p] \in {"SearchLoop", "Callback"} =>
                /\ data' = data
                /\ StoreContent' = StoreContent
          /\ (pc[p] = "SearchLoop" /\ pc'[p] = "idle" /\ ret'[p].err = NoError) =>
                /\ NoRepeat(visited'[p])
                /\ Elems(visited'[p]) =
                       {id \in DOMAIN data : isQualified(arg[p].filter, saved[id])}
          /\ (pc[p] = "SearchLoop" /\ todo[p] = {}) => ret'[p].err = NoError
      ]_vars

\* a Search over two records returned nil after one callback: one record
\* qualified and the other did not
C10_Witness ==
    \E p \in Procs :
        /\ ret[p].op = "Search"
        /\ ret[p].err = NoError
        /\ Cardinality(DOMAIN data) = 2
        /\ Len(visited[p]) = 1
        /\ \E id \in DOMAIN data : ~isQualified(ret[p].filter, Deref(heap, data[id]))

\* the stored records that qualify for filter f
Qualified(f) == {id \in DOMAIN data : isQualified(f, Deref(heap, data[id]))}

\* C11: when the callback returns an error for a match, Search returns that
\* very error in the same step, releases the read lock, and has invoked the
\* callback for no record after the one that failed, whichever key the range
\* loop yielded first and however many other records qualify; once Search has
\* returned no callback is invoked until the next call.
C11_CallbackFailureStopsSearch ==
    [][\A p \in Procs :
          /\ (pc[p] = "Callback" /\ \E keep \in BOOLEAN : CallbackReturn(p, TRUE, keep)) =>
                /\ pc'[p] = "idle"
                /\ ret'[p].op = "Search"
                /\ ret'[p].err = CallbackError
                /\ p \notin readers'
                /\ visited'[p] = visited[p]
                /\ data' = data
          /\ pc[p] = "idle" => visited'[p] \in {visited[p], <<>>}
      ]_vars

\* Search returned the error of the callback after a single invocation while
\* two stored records qualified, and holds no read lock
C11_Witness ==
    \E p \in Procs :
        /\ ret[p].op = "Search"
        /\ ret[p].err = CallbackError
        /\ pc[p] = "idle"
        /\ Len(visited[p]) = 1
        /\ Cardinality(Qualified(ret[p].filter)) = 2
        /\ readers = {}

\* process p takes the step in which Find returns
FindReturns(p) == pc[p] = "FindBody" /\ pc'[p] = "idle"

\* C12 as stated: Find for an identifier that is no key returns no record and
\* no error, and for a key it returns a record equal to the one saved; the
\* store is unchanged.
C12_FindReturnsSavedRecord ==
    [][\A p \in Procs : FindReturns(p) =>
          LET id == arg[p].id
              r == ret'[p]
          IN /\ data' = data
             /\ StoreContent' = StoreContent
             /\ id \notin DOMAIN data => (r.addr = Nil /\ r.err = NoError)
             /\ id \in DOMAIN data =>
                    /\ r.err = NoError
                    /\ r.addr # Nil
                    /\ r.val = saved[id]
      ]_vars

\* C12, amended: Find for an identifier that is no key returns no record and
\* no error; for a key it returns either a record whose content equals the
\* record saved under the identifier, with no error, or no record and the
\* error of a copy that failed; in every case the store is unchanged.
C12_FindReturnsSavedRecordOrCopyError ==
    [][\A p \in Procs : FindReturns(p) =>
          LET id == arg[p].id
              r == ret'[p]
          IN /\ r.op = "Find"
             /\ data' = data
             /\ StoreContent' = StoreContent
             /\ p \notin readers'
             /\ id \notin DOMAIN data => (r.addr = Nil /\ r.err = NoError)
             /\ id \in DOMAIN data =>
                    \/ /\ r.err = NoError
                       /\ r.addr # Nil
                       /\ r.val = saved[id]
                       /\ r.val = StoreContent[id]
                       /\ Deref(heap', r.addr) = r.val
                    \/ /\ r.err = CopyError
                       /\ r.addr = Nil
      ]_vars

\* a Find returned the record saved under a key, in a record of its own, and
\* a Find for another identifier would find nothing
C12_Witness ==
    \E p \in Procs :
        /\ ret[p].op = "Find"
        /\ ret[p].err = NoError
        /\ ret[p].addr \in results
        /\ ret[p].id \in DOMAIN data
        /\ ret[p].addr # data[ret[p].id]
        /\ Deref(heap, ret[p].addr) = saved[ret[p].id]
        /\ UUIDs \ DOMAIN data # {}

\* C18: no step of Save, Find, Search or CreateLaptop removes a key of the
\* store, makes a key point to another record, or changes a stored record:
\* every record stays as it was saved.
C18_RecordsNeverRemovedOrReplaced ==
    [][/\ DOMAIN data \subseteq DOMAIN data'
       /\ \A id \in DOMAIN data :
            /\ data'[id] = data[id]
            /\ Deref(heap', data'[id]) = Deref(heap, data[id])
            /\ Deref(heap', data'[id]) = saved[id]
      ]_vars

\* the store holds two records as they were saved, after a CreateLaptop for
\* one of their identifiers was answered AlreadyExists
C18_Witness ==
    \E p \in Procs :
        /\ Cardinality(DOMAIN data) = 2
        /\ ret[p].op = "CreateLaptop"
        /\ ret[p].code = "AlreadyExists"
        /\ \A id \in DOMAIN data : Deref(heap, data[id]) = saved[id]
        /\ \E a \in results : heap[a].Id = ret[p].id

-----------------------------------------------------------------------------
(* Claims about sharing, under SpecIsolation *)

Stored == Reach(heap, Range(data))

\* C2: the record Save stored shares no object with the caller's record, and a
\* Find that follows a write of the caller to its record, sub-messages
\* included, returns the record as it was when it was saved.
C2_StoredRecordIndependentOfArgument ==
    /\ \A r \in accepted : Reach(heap, {r}) \cap Stored = {}
    /\ \A p \in Procs :
          (ret[p].op = "Find" /\ ret[p].addr # Nil /\ "request" \in ret[p].stale) =>
              ret[p].val = saved[ret[p].id]

\* the caller wrote to the CPU sub-message of a record it had saved, and the
\* Find that followed returned the CPU as saved
C2_Witness ==
    \E p \in Procs, r \in accepted :
        /\ ret[p].op = "Find"
        /\ ret[p].addr # Nil
        /\ "request" \in ret[p].stale
        /\ heap[r].Id = ret[p].id
        /\ heap[r].Cpu # Nil
        /\ heap[heap[r].Cpu].NumberCores \in MutatedValues
        /\ ret[p].val.Cpu.NumberCores \notin MutatedValues

\* C3: a record handed out by Find or to the callback of Search shares no
\* object with the store or with another record handed out; whatever callers
\* write to such records, sub-messages included, the store holds every record
\* as it was saved and a later Find returns it so.
C3_ResultsIndependentOfStore ==
    /\ \A a \in results : Reach(heap, {a}) \cap Stored = {}
    /\ \A a \in results, b \in results :
          a # b => Reach(heap, {a}) \cap Reach(heap, {b}) = {}
    /\ \A id \in DOMAIN data : Deref(heap, data[id]) = saved[id]
    /\ \A p \in Procs :
          (ret[p].op = "Find" /\ ret[p].addr # Nil /\ "result" \in ret[p].stale) =>
              ret[p].val = saved[ret[p].id]

\* a caller wrote to the RAM sub-message of a record it was handed, and the
\* Find that followed for the same identifier returned the RAM as saved, in a
\* record of its own
C3_Witness ==
    \E p \in Procs, a \in results :
        /\ ret[p].op = "Find"
        /\ "result" \in ret[p].stale
        /\ ret[p].addr \in results \ {a}
        /\ heap[a].Id = ret[p].id
        /\ heap[a].Ram # Nil
        /\ heap[heap[a].Ram].Value \in MutatedValues
        /\ Deref(heap, ret[p].addr) = saved[ret[p].id]
        /\ Deref(heap, data[ret[p].id]) = saved[ret[p].id]

\* a caller wrote to the record it was handed in the callback of Search
C3_WitnessCallback ==
    \E p \in Procs :
        /\ pc[p] = "Callback"
        /\ Deref(heap, arg[p].cb) # saved[heap[arg[p].cb].Id]

-----------------------------------------------------------------------------
(* isQualified on its own: a filter and a record are drawn and the predicate
   is applied *)

QPrices == {0, 499, 500, 501, 999, 1000, 1001}

QCpus == {NilMsg, Cpu(2, 20), Cpu(4, 19), Cpu(4, 20), Cpu(4, 25), Cpu(8, 30)}

\* 2097152 TERABYTE is 2^64 bits: the shift wraps to 0
QRams ==
    {NilMsg, Mem(8, "GIGABYTE"), Mem(4, "GIGABYTE"), Mem(16, "GIGABYTE"),
     Mem(4096, "MEGABYTE"), Mem(4095, "MEGABYTE"), Mem(1, "TERABYTE"),
     Mem(2097152, "TERABYTE"), Mem(5, "UNKNOWN"), Mem(65536, "BIT")}

QLaptops == {[Id |-> UUID1, PriceUsd |-> p, Cpu |-> c, Ram |-> m] :
                 p \in QPrices, c \in QCpus, m \in QRams}

QFilters == {Filter(p, c, g, m) :
                 p \in {0, 500, 1000}, c \in {0, 4}, g \in {0, 20},
                 m \in {NilMsg, Mem(4, "GIGABYTE"), Mem(16, "GIGABYTE"), Mem(4096, "MEGABYTE")}}

InitQual ==
    /\ heap = <<>>
    /\ data = <<>>
    /\ writer = Nil
    /\ readers = {}
    /\ pc = [p \in Procs |-> "idle"]
    /\ arg = [p \in Procs |-> NoArg]
    /\ todo = [p \in Procs |-> {}]
    /\ visited = [p \in Procs |-> <<>>]
    /\ ret = [p \in Procs |-> NoRet]
    /\ reqs = {}
    /\ results = {}
    /\ saved = <<>>
    /\ accepted = {}
    /\ qf \in QFilters
    /\ ql \in QLaptops
    /\ qdone = FALSE
    /\ qres = FALSE
    /\ bm = NilMsg
    /\ bdone = FALSE
    /\ bres = <<0, 0, 0, 0>>

QualApply ==
    /\ ~qdone
    /\ qres' = isQualified(qf, ql)
    /\ qdone' = TRUE
    /\ UNCHANGED <<qf, ql, bm, bdone, bres, storeVars>>

NextQual == QualApply

SpecQual == InitQual /\ [][NextQual]_vars

-----------------------------------------------------------------------------
(* Claims about isQualified, under SpecQual *)

\* the four bounds of the filter are set
AllBoundsSet(f) ==
    /\ f.MaxPriceUsd # 0
    /\ f.MinCpuCores # 0
    /\ f.MinCpuGhz # 0
    /\ f.MinRam.kind # "nil"

\* a >= b on uint64 bit counts given as limbs, most significant limb first
BitsAtLeast(a, b) ==
    \/ a = b
    \/ \E i \in 1..4 : a[i] > b[i] /\ \A j \in (i + 1)..4 : a[j] = b[j]

ExampleLaptop == [Id |-> UUID1, PriceUsd |-> 999, Cpu |-> Cpu(4, 25), Ram |-> Mem(8, "GIGABYTE")]

\* C8: with the max price of the filter unset (zero), a record that meets the
\* other three bounds qualifies whatever its price.
C8_UnsetMaxPriceUnconstrained ==
    (/\ qdone
     /\ qf.MaxPriceUsd = 0
     /\ GetNumberCores(ql.Cpu) >= qf.MinCpuCores
     /\ GetMinGhz(ql.Cpu) >= qf.MinCpuGhz
     /\ BitsAtLeast(toBit(ql.Ram), toBit(qf.MinRam)))
    => qres = TRUE

\* C9: with all four bounds set, a record qualifies exactly when
\* price <= maxPrice, cores >= minCores, GHz >= minGhz and
\* toBit(ram) >= toBit(minRam); the record (999, 4 cores, 2.5 GHz, 8 GIGABYTE)
\* qualifies for (1000, 4, 2.0, 4 GIGABYTE) and does not when the max price is
\* 500 or the min RAM is 16 GIGABYTE.
C9_QualifiedExactlyWhenAllBoundsMet ==
    (qdone /\ AllBoundsSet(qf)) =>
        /\ qres <=> (/\ ql.PriceUsd <= qf.MaxPriceUsd
                     /\ GetNumberCores(ql.Cpu) >= qf.MinCpuCores
                     /\ GetMinGhz(ql.Cpu) >= qf.MinCpuGhz
                     /\ BitsAtLeast(toBit(ql.Ram), toBit(qf.MinRam)))
        /\ (ql = ExampleLaptop /\ qf = Filter(1000, 4, 20, Mem(4, "GIGABYTE"))) => qres
        /\ (ql = ExampleLaptop /\ qf = Filter(500, 4, 20, Mem(4, "GIGABYTE"))) => ~qres
        /\ (ql = ExampleLaptop /\ qf = Filter(1000, 4, 20, Mem(16, "GIGABYTE"))) => ~qres

\* the example record was found qualified for the example filter
C9_Witness ==
    /\ qdone
    /\ ql = ExampleLaptop
    /\ qf = Filter(1000, 4, 20, Mem(4, "GIGABYTE"))
    /\ qres
    /\ toBit(ql.Ram) = <<0, 0, 16, 0>>

-----------------------------------------------------------------------------
(* Claims about the identifiers CreateLaptop stores, under SpecCreate *)

\* C20: when CreateLaptop calls Store.Save the identifier of the record is not
\* empty: it is the identifier of the request if that is a well-formed UUID,
\* and a generated UUID if the request had none; so every key of a store that
\* is written through CreateLaptop only is a non-empty well-formed UUID.
C20_SaveNeverGetsEmptyId ==
    [][/\ \A p \in Procs :
            (pc'[p] = "Lock" /\ pc[p] = "idle" /\ arg'[p].via = "CreateLaptop") =>
                LET id == heap'[arg'[p].laptop].Id
                IN /\ id # ""
                   /\ id \in UUIDs
                   /\ arg'[p].id # "" => id = arg'[p].id
       /\ \A p \in Procs :
            (pc[p] \in {"Lock", "LockWait", "SaveBody"} /\ arg[p].via = "CreateLaptop") =>
                heap'[arg[p].laptop].Id = heap[arg[p].laptop].Id
       /\ \A k \in DOMAIN data' : k # "" /\ k \in UUIDs /\ heap'[data'[k]].Id = k
      ]_vars

\* CreateLaptop, for a request without identifier, is in Save with a generated
\* UUID, and the store holds a record already
C20_Witness ==
    \E p \in Procs :
        /\ pc[p] = "SaveBody"
        /\ arg[p].via = "CreateLaptop"
        /\ arg[p].id = ""
        /\ heap[arg[p].laptop].Id \in UUIDs
        /\ DOMAIN data # {}
        /\ heap[arg[p].laptop].Id \notin DOMAIN data

-----------------------------------------------------------------------------
(* Claims about concurrent callers, under SpecConc *)

\* process p takes the step in which the Save it called for itself or through
\* CreateLaptop returns
SaveLeaves(p) ==
    /\ pc[p] \in {"SaveBody", "SaveCopy"}
    /\ pc'[p] = "idle"

\* the last operation of p stored a record
Succeeded(p) ==
    \/ ret[p].op = "Save" /\ ret[p].err = NoError
    \/ ret[p].op = "CreateLaptop" /\ ret[p].code = "OK"

\* C14 as stated: of the Save calls and CreateLaptop requests that carry one
\* identifier, in any interleaving, the one that finds the identifier absent
\* succeeds and inserts its record, and every one that finds it present fails
\* with ErrAlreadyExist (AlreadyExists) and changes nothing.
C14_ExactlyOneSaveSucceeds ==
    [][\A p \in Procs : SaveLeaves(p) =>
          LET r == arg[p].laptop
              id == heap[r].Id
          IN /\ id \in DOMAIN data =>
                    /\ ret'[p].err = ErrAlreadyExist
                    /\ data' = data
                    /\ StoreContent' = StoreContent
             /\ id \notin DOMAIN data =>
                    /\ ret'[p].err = NoError
                    /\ DOMAIN data' = DOMAIN data \cup {id}
                    /\ StoreContent'[id] = Deref(heap, r)
      ]_vars

\* C14, amended: of the Save calls and CreateLaptop requests that carry one
\* identifier, in any interleaving, at most one succeeds, and exactly one
\* unless a copy fails: a Save that finds the identifier present fails with
\* ErrAlreadyExist (AlreadyExists) and changes nothing; a Save that finds it
\* absent either inserts its record and succeeds or, when its copy fails,
\* returns the copy error (Internal) and changes nothing. The test and the
\* insertion are one step with respect to the map: no Save succeeds for an
\* identifier that is a key when it inserts, no stored record is overwritten,
\* and no two callers hold a success for one identifier.
C14_AtMostOneSaveSucceeds ==
    [][/\ \A p \in Procs : SaveLeaves(p) =>
            LET r == arg[p].laptop
                id == heap[r].Id
                e == ret'[p].err
            IN /\ id \in DOMAIN data =>
                      /\ e = ErrAlreadyExist
                      /\ arg[p].via = "CreateLaptop" => ret'[p].code = "AlreadyExists"
                      /\ data' = data
                      /\ StoreContent' = StoreContent
               /\ id \notin DOMAIN data =>
                      \/ /\ e = NoError
                         /\ DOMAIN data' = DOMAIN data \cup {id}
                         /\ StoreContent'[id] = Deref(heap, r)
                         /\ \A k \in DOMAIN data : StoreContent'[k] = StoreContent[k]
                      \/ /\ e = CopyError
                         /\ arg[p].via = "CreateLaptop" => ret'[p].code = "Internal"
                         /\ data' = data
                         /\ StoreContent' = StoreContent
       /\ \A p \in Procs : pc[p] = "SaveCopy" => heap[arg[p].laptop].Id \notin DOMAIN data
       /\ \A p \in Procs :
            /\ Succeeded(p) => ret[p].id \in DOMAIN data
            /\ ret[p].err = ErrAlreadyExist => ret[p].id \in DOMAIN data
            /\ \A q \in Procs \ {p} :
                  (Succeeded(p) /\ Succeeded(q)) => ret[p].id # ret[q].id
      ]_vars

\* two CreateLaptop requests were in flight at once and were given the same
\* generated identifier: one has stored its record, the other, which started
\* when the store did not hold the identifier, now holds the write lock
C14_Witness ==
    \E p \in Procs, q \in Procs :
        /\ ret[q].op = "CreateLaptop"
        /\ ret[q].code = "OK"
        /\ pc[p] = "SaveBody"
        /\ arg[p].via = "CreateLaptop"
        /\ ret[q].id \notin arg[p].before
        /\ heap[arg[p].laptop].Id = ret[q].id
        /\ ret[q].id \in DOMAIN data

\* the callers inside Save, and those inside Find or Search
Writing == {p \in Procs : pc[p] \in {"SaveBody", "SaveCopy"}}

Reading == {p \in Procs : pc[p] \in {"FindBody", "SearchLoop", "Callback"}
                              \/ arg[p].via = "Callback"}

\* C15: at most one Save is inside its critical section; while one is, no
\* Find and no Search is inside theirs; Find and Search hold the read lock
\* together.
C15_LockingDiscipline ==
    /\ Cardinality(Writing) <= 1
    /\ Writing # {} => (Reading = {} /\ readers = {} /\ Writing = {writer})
    /\ readers = Reading

\* a Find and a Search, in its callback, hold the read lock at the same time
C15_Witness ==
    \E p \in Procs, q \in Procs :
        /\ pc[p] = "FindBody"
        /\ pc[q] = "Callback"
        /\ readers = {p, q}
        /\ Writing = {}

\* C16: from the step in which Search takes the read lock to the step in which
\* it returns, callbacks included, the map and the stored records do not
\* change; the range loop starts with the keys of the map, and a Search that
\* returns nil has invoked the callback for exactly the qualified records of
\* the store as it is then and was all along.
C16_SearchSeesOneSnapshot ==
    [][\A p \in Procs :
          /\ (pc[p] \in {"SearchLoop", "Callback"} \/ arg[p].via = "Callback") =>
                /\ data' = data
                /\ StoreContent' = StoreContent
                /\ todo[p] \cup Elems(visited[p]) \subseteq DOMAIN data
          /\ (pc[p] = "RLock" /\ pc'[p] = "SearchLoop") => todo'[p] = DOMAIN data
          /\ (pc[p] = "SearchLoop" /\ pc'[p] = "idle" /\ ret'[p].err = NoError) =>
                /\ NoRepeat(visited'[p])
                /\ Elems(visited'[p]) = Qualified(arg[p].filter)
      ]_vars

\* a Search is in its callback over a store with one record while a Save of
\* another identifier waits for the write lock
C16_Witness ==
    \E p \in Procs, q \in Procs :
        /\ pc[p] = "Callback"
        /\ pc[q] = "LockWait"
        /\ DOMAIN data # {}
        /\ heap[arg[q].laptop].Id \notin DOMAIN data

\* C19: once the callback of a Search has called Save on the store, the Save
\* never gets past Lock: the caller waits in Lock holding the read lock of its
\* Search, the Save does not return and neither does the Search, and the map
\* does not change any more.
C19_SaveInCallbackDeadlocks ==
    [][\A p \in Procs : arg[p].via = "Callback" =>
          /\ arg'[p].via = "Callback"
          /\ pc[p] \in {"Lock", "LockWait"}
          /\ pc'[p] \in {"Lock", "LockWait"}
          /\ p \in readers'
          /\ ret'[p] = ret[p]
          /\ visited'[p] = visited[p]
          /\ data' = data
      ]_vars

\* the callback of a Search called Save; the Save holds the writer slot and
\* waits for the readers, of which its own caller is one
C19_Witness ==
    \E p \in Procs :
        /\ arg[p].via = "Callback"
        /\ pc[p] = "LockWait"
        /\ writer = p
        /\ p \in readers

-----------------------------------------------------------------------------
(* Claims about progress, under SpecFair *)

\* C17: every Save that is started gets the write lock and returns, whatever
\* Find and Search calls the other callers keep making; and a caller that has
\* returned from Save, Find or Search, on whichever path, holds neither lock.
C17_SaveEventuallyReturns ==
    /\ \A p \in Procs : (pc[p] = "Lock") ~> (pc[p] = "SaveBody" /\ writer = p /\ readers = {})
    /\ \A p \in Procs : (pc[p] = "SaveBody") ~> (pc[p] = "idle" /\ ret[p].op = "Save")
    /\ [](\A p \in Procs : pc[p] \in {"idle", "Lock", "RLock"} =>
                                (p \notin readers /\ writer # p))

\* a Save waits for the write lock while a Find of the other caller holds the
\* read lock, and a record is stored
C17_Witness ==
    \E p \in Procs, q \in Procs :
        /\ pc[p] = "LockWait"
        /\ writer = p
        /\ pc[q] = "FindBody"
        /\ readers = {q}
        /\ DOMAIN data # {}

-----------------------------------------------------------------------------
(* toBit on its own: a memory value is drawn and converted *)

\* magnitudes around the limb boundaries and around 2^21, from which
\* TERABYTE values leave 64 bits
BMagnitudes ==
    {0, 1, 3, 1024, 65535, 65536, 1048576, 2097151, 2097152, 1073741824, 2147483647}

BMemories == {Mem(v, u) : v \in BMagnitudes, u \in Units}

InitBits ==
    /\ heap = <<>>
    /\ data = <<>>
    /\ writer = Nil
    /\ readers = {}
    /\ pc = [p \in Procs |-> "idle"]
    /\ arg = [p \in Procs |-> NoArg]
    /\ todo = [p \in Procs |-> {}]
    /\ visited = [p \in Procs |-> <<>>]
    /\ ret = [p \in Procs |-> NoRet]
    /\ reqs = {}
    /\ results = {}
    /\ saved = <<>>
    /\ accepted = {}
    /\ qf = Filter(0, 0, 0, NilMsg)
    /\ ql = [Id |-> "", PriceUsd |-> 0, Cpu |-> NilMsg, Ram |-> NilMsg]
    /\ qdone = FALSE
    /\ qres = FALSE
    /\ bm \in BMemories
    /\ bdone = FALSE
    /\ bres = <<0, 0, 0, 0>>

ToBitApply ==
    /\ ~bdone
    /\ bres' = toBit(bm)
    /\ bdone' = TRUE
    /\ UNCHANGED <<bm, qf, ql, qdone, qres, storeVars>>

NextBits == ToBitApply

SpecBits == InitBits /\ [][NextBits]_vars

-----------------------------------------------------------------------------
(* Claims about toBit, under SpecBits *)

\* x times 2^n on uint64: every limb is multiplied by 2^(n mod 16) and the
\* carries are passed up, then the limbs move up n div 16 places; what leaves
\* the top limb is dropped
TimesPow2(x, n) ==
    LET m == 2 ^ (n % 16)
        p1 == x[1] * m
        p2 == x[2] * m + (p1 \div Base)
        p3 == x[3] * m + (p2 \div Base)
        p4 == x[4] * m + (p3 \div Base)
        y == <<p1 % Base, p2 % Base, p3 % Base, p4 % Base>>
    IN [i \in 1..4 |-> IF i > n \div 16 THEN y[i - (n \div 16)] ELSE 0]

\* the multiplier of a unit is 2 to this power
UnitExponent(u) ==
    CASE u = "BIT" -> 0
      [] u = "BYTE" -> 3
      [] u = "KILOBYTE" -> 13
      [] u = "MEGABYTE" -> 23
      [] u = "GIGABYTE" -> 33
      [] u = "TERABYTE" -> 43

\* C13: toBit(v, unit) is v times the multiplier of the unit (BIT 1, BYTE 2^3,
\* KILOBYTE 2^13, MEGABYTE 2^23, GIGABYTE 2^33, TERABYTE 2^43) in 64-bit
\* unsigned arithmetic, bit for bit; an unrecognized unit gives 0; and
\* 1 GIGABYTE, 1024 MEGABYTE and 1073741824 BYTE all give 2^33 bits.
C13_ToBitExactConversion ==
    bdone =>
        /\ bm.Unit \in Units \ {"UNKNOWN"} =>
                bres = TimesPow2(U64(bm.Value), UnitExponent(bm.Unit))
        /\ bm.Unit = "UNKNOWN" => bres = <<0, 0, 0, 0>>
        /\ bm \in {Mem(1, "GIGABYTE"), Mem(1024, "MEGABYTE"), Mem(1073741824, "BYTE")} =>
                bres = <<0, 0, 2, 0>>

\* 1073741824 BYTE were converted to 2^33 bits
C13_Witness ==
    /\ bdone
    /\ bm = Mem(1073741824, "BYTE")
    /\ bres = <<0, 0, 2, 0>>
    /\ bres = toBit(Mem(1, "GIGABYTE"))
    /\ bres = toBit(Mem(1024, "MEGABYTE"))

====
